---- MODULE Spec2Model ----
(***************************************************************************)
(* A model of mlpack's RangeSearch orchestrator                            *)
(* (src/mlpack/methods/range_search/range_search_impl.hpp).                *)
(*                                                                         *)
(* Points live on a line (one coordinate each); a point set is a sequence  *)
(* of coordinates, one per column.  Positions are numbered from 1 (the     *)
(* code numbers them from 0).  The caller owns a reference matrix, a query *)
(* matrix, a range, two output buffers and one externally built reference  *)
(* tree.  One RangeSearch object at a time is constructed, searched with   *)
(* any of the three Search overloads, and torn down; then another may be   *)
(* constructed.  Every action is one whole call.                           *)
(***************************************************************************)
EXTENDS Integers, Sequences, FiniteSets, TLC

\* The reference matrix has 1..MaxRef columns.
MaxRef == 2
\* The query matrix has 1..MaxQuery columns.
MaxQuery == 2

VARIABLES
  referenceSetIn,     \* the caller's reference matrix
  querySetIn,         \* the caller's query matrix
  range,              \* the caller's math::Range, [lo, hi]
  RearrangesDataset,  \* tree::TreeTraits<Tree>::RearrangesDataset
  trees,              \* the heap's reference trees: the caller's ("ext") and the object's ("own")
  rs,                 \* the RangeSearch object's members
  neighbors,          \* the caller's neighbors buffer
  distances,          \* the caller's distances buffer
  queryTreesAlive,    \* query trees built by Search and not yet deleted
  lastCall            \* what the last call was, how it ended, and what it did

vars == <<referenceSetIn, querySetIn, range, RearrangesDataset, trees, rs,
          neighbors, distances, queryTreesAlive, lastCall>>

----------------------------------------------------------------------------
(* Sequences *)

\* The places on the line a point can be at, and the values a range end can
\* take: distances are 0 or 1.
Coords == {0, 1}

RECURSIVE SeqsUpTo(_, _)
\* The sequences over S of length 1..n.
SeqsUpTo(S, n) ==
  IF n = 0 THEN {}
  ELSE SeqsUpTo(S, n - 1) \cup [1..n -> S]

\* std::vector::clear() followed by resize(n): n empty entries.
Resized(n) == [k \in 1..n |-> <<>>]

Min2(a, b) == IF a <= b THEN a ELSE b
Max2(a, b) == IF a >= b THEN a ELSE b

----------------------------------------------------------------------------
(* The metric and the range *)

\* MetricType::Evaluate on two columns: the Euclidean distance on a line.
Evaluate(a, b) == IF a >= b THEN a - b ELSE b - a

\* math::Range::Contains: both ends inclusive.
Contains(rng, d) == rng.lo <= d /\ d <= rng.hi

----------------------------------------------------------------------------
(* The tree *)

\* The place of column k after the tree has reordered the matrix: columns
\* are ordered by coordinate, equal coordinates by original position.
NewFromOld(dataset, k) ==
  1 + Cardinality({m \in 1..Len(dataset) :
                     \/ dataset[m] < dataset[k]
                     \/ dataset[m] = dataset[k] /\ m < k})

\* TreeType(dataset, oldFromNew): the tree holds its own, reordered copy of
\* the matrix and emits the permutation record.  `dataset` in the result is
\* the matrix that was passed, as it is after the call: left alone.
TreeRearranging(dataset) ==
  LET n == Len(dataset)
      oldFromNew == [p \in 1..n |-> CHOOSE k \in 1..n : NewFromOld(dataset, k) = p]
  IN [tree       |-> [Dataset |-> [p \in 1..n |-> dataset[oldFromNew[p]]]],
      oldFromNew |-> oldFromNew,
      dataset    |-> dataset]

\* TreeType(dataset): the tree holds the matrix in the caller's order; the
\* permutation record handed to BuildTree stays as it was (empty).
TreeInPlace(dataset) ==
  [tree |-> [Dataset |-> dataset], oldFromNew |-> <<>>, dataset |-> dataset]

\* A mutant of BuildTree: the matrix that was passed by non-const reference
\* (the caller's, its const cast away) is left in the tree's order.
BuildTreeReorderingArgument(dataset, rearranges) ==
  LET t == IF rearranges THEN TreeRearranging(dataset) ELSE TreeInPlace(dataset)
  IN [tree |-> t.tree, oldFromNew |-> t.oldFromNew, dataset |-> t.tree.Dataset]

\* BuildTree<Tree>(dataset, oldFromNew): the overload, and with it the
\* constructor, is selected by the tree's RearrangesDataset trait.
BuildTree(dataset, rearranges) ==
  IF rearranges THEN TreeRearranging(dataset) ELSE TreeInPlace(dataset)

\* A node is a run of columns of the tree's matrix: `count` columns from
\* `begin`.  Its bound is the interval spanned by their coordinates.
RECURSIVE BoundLo(_, _, _)
BoundLo(dataset, begin, count) ==
  IF count = 1 THEN dataset[begin]
  ELSE Min2(dataset[begin], BoundLo(dataset, begin + 1, count - 1))

RECURSIVE BoundHi(_, _, _)
BoundHi(dataset, begin, count) ==
  IF count = 1 THEN dataset[begin]
  ELSE Max2(dataset[begin], BoundHi(dataset, begin + 1, count - 1))

\* A node with one column is a leaf; any other has two children, the first
\* half of its run and the rest.
IsLeaf(count) == count = 1
LeftCount(count) == count \div 2

----------------------------------------------------------------------------
(* The rule and the three traversals *)

\* RangeSearchRules(referenceSet, querySet, range, neighbors, distances,
\* metric, sameSet): what the rule reads.  What it writes, the two buffers,
\* is threaded through the traversal as res = [n |-> ..., d |-> ...].
RuleType(referenceSet, querySet, rng, sameSet) ==
  [referenceSet |-> referenceSet, querySet |-> querySet, range |-> rng,
   sameSet |-> sameSet]

\* rules.BaseCase(i, j): in self-search a point is not matched with itself;
\* otherwise the pair is reported when its distance lies in the range.
BaseCase(rules, res, i, j) ==
  IF rules.sameSet /\ i = j THEN res
  ELSE LET d == Evaluate(rules.querySet[i], rules.referenceSet[j])
       IN IF Contains(rules.range, d)
          THEN [n |-> [res.n EXCEPT ![i] = Append(@, j)],
                d |-> [res.d EXCEPT ![i] = Append(@, d)]]
          ELSE res

\* Whether a node pair (or point and node) whose distances span
\* [dmin, dmax] is pruned: its distances lie wholly outside the range.
Prune(rules, dmin, dmax) == dmax < rules.range.lo \/ dmin > rules.range.hi

RECURSIVE NaiveReferencesOffByOne(_, _, _, _)
\* A mutant of NaiveReferences: the loop stops one reference column early.
NaiveReferencesOffByOne(rules, res, i, j) ==
  IF j >= Len(rules.referenceSet) THEN res
  ELSE NaiveReferencesOffByOne(rules, BaseCase(rules, res, i, j), i, j + 1)

RECURSIVE NaiveReferences(_, _, _, _)
\* for (j = 0; j < referenceSet.n_cols; ++j) rules.BaseCase(i, j);
NaiveReferences(rules, res, i, j) ==
  IF j > Len(rules.referenceSet) THEN res
  ELSE NaiveReferences(rules, BaseCase(rules, res, i, j), i, j + 1)

RECURSIVE NaiveQueries(_, _, _)
\* for (i = 0; i < querySet.n_cols; ++i) ...
NaiveQueries(rules, res, i) ==
  IF i > Len(rules.querySet) THEN res
  ELSE NaiveQueries(rules, NaiveReferences(rules, res, i, 1), i + 1)

RECURSIVE SingleTreeTraverser(_, _, _, _, _)
\* traverser.Traverse(i, referenceNode): query point i against the node
\* holding `count` reference columns from `begin`.
SingleTreeTraverser(rules, res, i, begin, count) ==
  LET p    == rules.querySet[i]
      lo   == BoundLo(rules.referenceSet, begin, count)
      hi   == BoundHi(rules.referenceSet, begin, count)
      dmin == Max2(0, Max2(lo - p, p - hi))
      dmax == Max2(Evaluate(p, lo), Evaluate(p, hi))
  IN IF Prune(rules, dmin, dmax) THEN res
     ELSE IF IsLeaf(count) THEN BaseCase(rules, res, i, begin)
     ELSE SingleTreeTraverser(rules,
            SingleTreeTraverser(rules, res, i, begin, LeftCount(count)),
            i, begin + LeftCount(count), count - LeftCount(count))

RECURSIVE SingleTreeQueries(_, _, _)
\* for (i = 0; i < querySet.n_cols; ++i) traverser.Traverse(i, *referenceTree);
SingleTreeQueries(rules, res, i) ==
  IF i > Len(rules.querySet) THEN res
  ELSE SingleTreeQueries(rules,
         SingleTreeTraverser(rules, res, i, 1, Len(rules.referenceSet)), i + 1)

RECURSIVE DualTreeTraverser(_, _, _, _, _, _)
\* traverser.Traverse(queryNode, referenceNode).
DualTreeTraverser(rules, res, qb, qc, rb, rc) ==
  LET qlo  == BoundLo(rules.querySet, qb, qc)
      qhi  == BoundHi(rules.querySet, qb, qc)
      rlo  == BoundLo(rules.referenceSet, rb, rc)
      rhi  == BoundHi(rules.referenceSet, rb, rc)
      dmin == Max2(0, Max2(rlo - qhi, qlo - rhi))
      dmax == Max2(qhi - rlo, rhi - qlo)
      ql   == LeftCount(qc)
      rl   == LeftCount(rc)
  IN IF Prune(rules, dmin, dmax) THEN res
     ELSE IF IsLeaf(qc) /\ IsLeaf(rc) THEN BaseCase(rules, res, qb, rb)
     ELSE IF IsLeaf(qc) THEN
       DualTreeTraverser(rules,
         DualTreeTraverser(rules, res, qb, qc, rb, rl),
         qb, qc, rb + rl, rc - rl)
     ELSE IF IsLeaf(rc) THEN
       DualTreeTraverser(rules,
         DualTreeTraverser(rules, res, qb, ql, rb, rc),
         qb + ql, qc - ql, rb, rc)
     ELSE
       DualTreeTraverser(rules,
         DualTreeTraverser(rules,
           DualTreeTraverser(rules,
             DualTreeTraverser(rules, res, qb, ql, rb, rl),
             qb, ql, rb + rl, rc - rl),
           qb + ql, qc - ql, rb, rl),
         qb + ql, qc - ql, rb + rl, rc - rl)

\* The traversal a Search call dispatches to; res0 holds *neighborPtr and
\* *distancePtr as the call resized them.  mode is "naive", "single" or
\* "dual".
Traverse(mode, rules, res0) ==
     CASE mode = "naive"  -> NaiveQueries(rules, res0, 1)
       [] mode = "single" -> SingleTreeQueries(rules, res0, 1)
       [] OTHER           ->
            DualTreeTraverser(rules, res0, 1, Len(rules.querySet),
                              1, Len(rules.referenceSet))

----------------------------------------------------------------------------
(* The RangeSearch object *)

\* The object before construction and after teardown.
NoObject ==
  [alive |-> FALSE, referenceTree |-> "NULL", referenceSet |-> <<>>,
   oldFromNewReferences |-> <<>>, treeOwner |-> FALSE, naive |-> FALSE,
   singleMode |-> FALSE]

\* A mutant of RangeSearchFromSet: singleMode is taken as the caller gave it.
RangeSearchFromSetKeepingSingleMode(referenceSet, naive, singleMode, rearranges) ==
  LET built == BuildTree(referenceSet, rearranges)
  IN [object |->
        [alive                |-> TRUE,
         referenceTree        |-> IF naive THEN "NULL" ELSE "own",
         referenceSet         |-> IF naive THEN referenceSet ELSE built.tree.Dataset,
         oldFromNewReferences |-> IF naive THEN <<>> ELSE built.oldFromNew,
         treeOwner            |-> ~naive,
         naive                |-> naive,
         singleMode           |-> singleMode],
      tree         |-> IF naive THEN [Dataset |-> <<>>] ELSE built.tree,
      built        |-> ~naive,
      referenceSet |-> IF naive THEN referenceSet ELSE built.dataset]

\* RangeSearch(referenceSetIn, naive, singleMode, metric).  `object` is the
\* constructed object, `tree` and `built` the reference tree it allocated
\* (if any), `referenceSet` the caller's matrix after the call.
RangeSearchFromSet(referenceSet, naive, singleMode, rearranges) ==
  LET built == BuildTree(referenceSet, rearranges)
  IN [object |->
        [alive                |-> TRUE,
         referenceTree        |-> IF naive THEN "NULL" ELSE "own",
         referenceSet         |-> IF naive THEN referenceSet ELSE built.tree.Dataset,
         oldFromNewReferences |-> IF naive THEN <<>> ELSE built.oldFromNew,
         treeOwner            |-> ~naive,
         naive                |-> naive,
         singleMode           |-> ~naive /\ singleMode],
      tree         |-> IF naive THEN [Dataset |-> <<>>] ELSE built.tree,
      built        |-> ~naive,
      referenceSet |-> IF naive THEN referenceSet ELSE built.dataset]

\* RangeSearch(referenceTree, singleMode, metric).
RangeSearchFromTree(referenceTree, singleMode) ==
  [alive                |-> TRUE,
   referenceTree        |-> "ext",
   referenceSet         |-> referenceTree.Dataset,
   oldFromNewReferences |-> <<>>,
   treeOwner            |-> FALSE,
   naive                |-> FALSE,
   singleMode           |-> singleMode]

\* A mutant of TreesDeletedByDestructor: the tree is deleted whoever owns it.
TreesDeletedIgnoringOwner(o) ==
  IF o.referenceTree # "NULL" THEN {o.referenceTree} ELSE {}

\* ~RangeSearch(): the trees it deletes.
TreesDeletedByDestructor(o) ==
  IF o.treeOwner /\ o.referenceTree # "NULL" THEN {o.referenceTree} ELSE {}

\* The strategy the flags select in Search.
Mode(o) ==
  IF o.naive THEN "naive" ELSE IF o.singleMode THEN "single" ELSE "dual"

----------------------------------------------------------------------------
(* Buffers and events of one Search call *)

\* The four vectors a Search call can touch: the caller's two, and the two
\* temporaries it may allocate.
Buffers == {"neighbors", "distances", "tmpNeighbors", "tmpDistances"}
Temporaries == {"tmpNeighbors", "tmpDistances"}

\* The vectors at the start of a call.
Heap0(nb, ds) ==
  [b \in Buffers |-> CASE b = "neighbors" -> nb
                       [] b = "distances" -> ds
                       [] OTHER           -> <<>>]

Opt(cond, events) == IF cond THEN events ELSE <<>>

\* How often event e occurs in a call's events.
RECURSIVE Count(_, _)
Count(events, e) ==
  IF events = <<>> THEN 0
  ELSE (IF Head(events) = e THEN 1 ELSE 0) + Count(Tail(events), e)

----------------------------------------------------------------------------
(* Search(querySet, range, neighbors, distances) *)

\* Lines 116-128: where the traversal writes.  A temporary is allocated for
\* the distances when a query tree will be built, and for the neighbors
\* when the object built its reference tree.
DistancePtr(o, rearranges) ==
  IF rearranges /\ ~o.singleMode /\ ~o.naive THEN "tmpDistances" ELSE "distances"

NeighborPtr(o, rearranges) ==
  IF rearranges /\ o.treeOwner THEN "tmpNeighbors" ELSE "neighbors"

\* A mutant of QueryTreeSteps: the query tree is never deleted.
QueryTreeStepsLeaking(o) ==
  IF Mode(o) = "dual"
  THEN << <<"stop", "computing_neighbors">>, <<"start", "tree_building">>,
          <<"build", "queryTree">>,
          <<"stop", "tree_building">>, <<"start", "computing_neighbors">>,
          <<"traverse", "dual">> >>
  ELSE << <<"traverse", Mode(o)>> >>

\* Lines 139-179: what the selected strategy does, in order.
QueryTreeSteps(o) ==
  IF Mode(o) = "dual"
  THEN << <<"stop", "computing_neighbors">>, <<"start", "tree_building">>,
          <<"build", "queryTree">>,
          <<"stop", "tree_building">>, <<"start", "computing_neighbors">>,
          <<"traverse", "dual">>, <<"delete", "queryTree">> >>
  ELSE << <<"traverse", Mode(o)>> >>

\* A mutant of MapReference: the internal index is copied as it is.
MapReferenceIdentity(oldFromNewReferences, raw) == raw

\* oldFromNewReferences[(*neighborPtr)[i][j]] for every j of one entry.
MapReference(oldFromNewReferences, raw) ==
  [j \in 1..Len(raw) |-> oldFromNewReferences[raw[j]]]

\* A mutant of QueryMapping: results stay at the query tree's position.
QueryMappingIdentity(oldFromNewQueries, i) == i

\* const size_t queryMapping = oldFromNewQueries[i];
QueryMapping(oldFromNewQueries, i) == oldFromNewQueries[i]

RECURSIVE MapBoth(_, _, _, _, _, _)
\* Lines 194-205, from i on: both query and reference indices are mapped.
\* neighbors[queryMapping] gets the length of distances[queryMapping].
MapBoth(h, np, dp, oldFromNewQueries, oldFromNewReferences, i) ==
  IF i > Len(h["distances"]) THEN h
  ELSE LET queryMapping == QueryMapping(oldFromNewQueries, i)
           h1 == [h EXCEPT !["distances"][queryMapping] = h[dp][i]]
           h2 == [h1 EXCEPT !["neighbors"][queryMapping] =
                    MapReference(oldFromNewReferences,
                      SubSeq(h1[np][i], 1, Len(h1["distances"][queryMapping])))]
       IN MapBoth(h2, np, dp, oldFromNewQueries, oldFromNewReferences, i + 1)

RECURSIVE MapQueries(_, _, _, _, _)
\* Lines 219-225, from i on: query indices only.
MapQueries(h, np, dp, oldFromNewQueries, i) ==
  IF i > Len(h["distances"]) THEN h
  ELSE LET queryMapping == QueryMapping(oldFromNewQueries, i)
           h1 == [h EXCEPT !["distances"][queryMapping] = h[dp][i]]
           h2 == [h1 EXCEPT !["neighbors"][queryMapping] = h1[np][i]]
       IN MapQueries(h2, np, dp, oldFromNewQueries, i + 1)

RECURSIVE MapReferences(_, _, _, _)
\* Lines 237-242 (and 302-307), from i on: reference indices only.
MapReferences(h, np, oldFromNewReferences, i) ==
  IF i > Len(h["neighbors"]) THEN h
  ELSE MapReferences(
         [h EXCEPT !["neighbors"][i] = MapReference(oldFromNewReferences, h[np][i])],
         np, oldFromNewReferences, i + 1)

\* A mutant of Clear: resize(n) without the clear() before it, so that the
\* entries a vector already has stay.
ResizeWithoutClear(h, names, n) ==
  [b \in Buffers |->
     IF b \in names
     THEN [k \in 1..n |-> IF k <= Len(h[b]) THEN h[b][k] ELSE <<>>]
     ELSE h[b]]

\* vector.clear(); vector.resize(n) on each of the named vectors.
Clear(h, names, n) == [b \in Buffers |-> IF b \in names THEN Resized(n) ELSE h[b]]

\* Lines 184-247: which of the three mappings runs.
Remapping(o, rearranges) ==
  IF ~rearranges THEN "none"
  ELSE IF ~o.singleMode /\ ~o.naive /\ o.treeOwner THEN "both"
  ELSE IF ~o.singleMode /\ ~o.naive THEN "queries"
  ELSE IF o.treeOwner THEN "references"
  ELSE "none"

\* A mutant of ObjectAfterBuildingQueryTree: BuildTree is handed the member
\* oldFromNewReferences instead of the local vector.
ObjectStoringQueryMapping(o, oldFromNewQueries) ==
  [o EXCEPT !.oldFromNewReferences = oldFromNewQueries]

\* Lines 107, 165-166: the query tree's permutation record is written into
\* the local oldFromNewQueries; no member of the object is assigned, here or
\* anywhere else in Search.
ObjectAfterBuildingQueryTree(o, oldFromNewQueries) == o

\* The whole call.  The result holds the four vectors as the call leaves
\* them, the caller's query matrix and the object after the call, the
\* call's events in order, and the vectors it handed to delete.
SearchQuerySetCall(o, rearranges, querySet, rng, nb, ds) ==
  LET np    == NeighborPtr(o, rearranges)
      dp    == DistancePtr(o, rearranges)
      nq    == Len(querySet)
      dual  == Mode(o) = "dual"
      qt    == BuildTree(querySet, rearranges)
      rules == RuleType(o.referenceSet,
                        IF dual THEN qt.tree.Dataset ELSE querySet, rng, FALSE)
      \* lines 130-134: both targets are cleared and resized
      h0    == Clear(Heap0(nb, ds), {np, dp}, nq)
      \* lines 136-179: the traversal fills *neighborPtr and *distancePtr
      raw   == Traverse(Mode(o), rules, [n |-> h0[np], d |-> h0[dp]])
      h1    == [h0 EXCEPT ![np] = raw.n, ![dp] = raw.d]
      how   == Remapping(o, rearranges)
      h2    == CASE how = "both" ->
                      MapBoth(Clear(h1, {"neighbors", "distances"}, nq), np, dp,
                              qt.oldFromNew, o.oldFromNewReferences, 1)
                 [] how = "queries" ->
                      MapQueries(Clear(h1, {"neighbors", "distances"}, nq), np, dp,
                                 qt.oldFromNew, 1)
                 [] how = "references" ->
                      MapReferences(Clear(h1, {"neighbors"}, nq), np,
                                    o.oldFromNewReferences, 1)
                 [] OTHER -> h1
      deleted == CASE how = "both"       -> <<np, dp>>
                   [] how = "queries"    -> <<np, dp>>
                   [] how = "references" -> <<np>>
                   [] OTHER              -> <<>>
      events ==
           << <<"start", "computing_neighbors">> >>
        \o Opt(dp \in Temporaries, << <<"new", dp>> >>)
        \o Opt(np \in Temporaries, << <<"new", np>> >>)
        \o << <<"clear", np>>, <<"clear", dp>> >>
        \o QueryTreeSteps(o)
        \o << <<"stop", "computing_neighbors">> >>
        \o Opt(how \in {"both", "queries"},
               << <<"clear", "neighbors">>, <<"clear", "distances">>,
                  <<"read", dp>>, <<"read", np>> >>)
        \o Opt(how = "references", << <<"clear", "neighbors">>, <<"read", np>> >>)
        \o [k \in 1..Len(deleted) |-> <<"delete", deleted[k]>>]
  IN [heap     |-> h2,
      querySet |-> IF dual THEN qt.dataset ELSE querySet,
      object   |-> IF dual THEN ObjectAfterBuildingQueryTree(o, qt.oldFromNew) ELSE o,
      events   |-> events,
      deleted  |-> {deleted[k] : k \in 1..Len(deleted)}]

----------------------------------------------------------------------------
(* Search(queryTree, range, neighbors, distances) *)

\* A mutant of UsageError: only single-tree mode is refused.
UsageErrorSingleOnly(o) == o.singleMode

\* A mutant of UsageError: only naive mode is refused.
UsageErrorNaiveOnly(o) == o.naive

\* Line 267: the call is refused unless the object is in dual-tree mode.
UsageError(o) == o.singleMode \/ o.naive

\* The whole call, given that it is not refused.
SearchQueryTreeCall(o, rearranges, queryTree, rng, nb, ds) ==
  LET map   == o.treeOwner /\ rearranges
      np    == IF map THEN "tmpNeighbors" ELSE "neighbors"
      nq    == Len(queryTree.Dataset)
      rules == RuleType(o.referenceSet, queryTree.Dataset, rng, FALSE)
      \* lines 277-281
      h0    == Clear(Heap0(nb, ds), {np, "distances"}, nq)
      raw   == Traverse("dual", rules, [n |-> h0[np], d |-> h0["distances"]])
      h1    == [h0 EXCEPT ![np] = raw.n, !["distances"] = raw.d]
      h2    == IF map
               THEN MapReferences(Clear(h1, {"neighbors"}, nq), np,
                                  o.oldFromNewReferences, 1)
               ELSE h1
      events ==
           << <<"start", "computing_neighbors">> >>
        \o Opt(map, << <<"new", np>> >>)
        \o << <<"clear", np>>, <<"clear", "distances">>, <<"traverse", "dual">>,
              <<"stop", "computing_neighbors">> >>
        \o Opt(map, << <<"clear", "neighbors">>, <<"read", np>>, <<"delete", np>> >>)
  IN [heap |-> h2, events |-> events, deleted |-> IF map THEN {np} ELSE {}]

\* The events of a refused call: the timer is started, then the error is thrown.
RefusedEvents ==
  << <<"start", "computing_neighbors">>, <<"throw", "invalid_argument">> >>

----------------------------------------------------------------------------
(* Search(range, neighbors, distances): the reference set is the query set *)

\* A mutant of SelfRules: the rule is built without the same-set flag.
SelfRulesReportingSelf(o, rng) == RuleType(o.referenceSet, o.referenceSet, rng, FALSE)

\* Lines 344-346: the rule of a self-search.
SelfRules(o, rng) == RuleType(o.referenceSet, o.referenceSet, rng, TRUE)

\* The whole call.
SearchSelfCall(o, rearranges, rng, nb, ds) ==
  LET map == rearranges /\ o.treeOwner
      np  == IF map THEN "tmpNeighbors" ELSE "neighbors"
      dp  == IF map THEN "tmpDistances" ELSE "distances"
      n   == Len(o.referenceSet)
      \* lines 337-341
      h0  == Clear(Heap0(nb, ds), {np, dp}, n)
      raw == Traverse(Mode(o), SelfRules(o, rng), [n |-> h0[np], d |-> h0[dp]])
      h1  == [h0 EXCEPT ![np] = raw.n, ![dp] = raw.d]
      h2  == IF map
             THEN MapBoth(Clear(h1, {"neighbors", "distances"}, n), np, dp,
                          o.oldFromNewReferences, o.oldFromNewReferences, 1)
             ELSE h1
      events ==
           << <<"start", "computing_neighbors">> >>
        \o Opt(map, << <<"new", dp>>, <<"new", np>> >>)
        \o << <<"clear", np>>, <<"clear", dp>>, <<"traverse", Mode(o)>>,
              <<"stop", "computing_neighbors">> >>
        \o Opt(map, << <<"clear", "neighbors">>, <<"clear", "distances">>,
                       <<"read", dp>>, <<"read", np>>,
                       <<"delete", np>>, <<"delete", dp>> >>)
  IN [heap |-> h2, events |-> events, deleted |-> IF map THEN {np, dp} ELSE {}]

----------------------------------------------------------------------------
(* The state machine *)

\* What the caller's buffers hold before the first call.
StaleNeighbors == << <<1, 1>> >>
StaleDistances == << <<0>>, <<>> >>

Call(op, args, outcome, events) ==
  [op |-> op, args |-> args, outcome |-> outcome, events |-> events]

\* The caller's tree over one of its matrices, built with the tree type's
\* constructor before the call that takes it.
CallerTree(dataset, rearranges) ==
  IF rearranges THEN TreeRearranging(dataset) ELSE TreeInPlace(dataset)

Init ==
  /\ referenceSetIn \in SeqsUpTo(Coords, MaxRef)
  /\ querySetIn \in SeqsUpTo(Coords, MaxQuery)
  /\ range \in [lo : Coords, hi : Coords]
  /\ RearrangesDataset \in BOOLEAN
  /\ trees = [t \in {"ext", "own"} |->
                IF t = "ext"
                THEN [built   |-> TRUE, deletes |-> 0,
                      Dataset |-> CallerTree(referenceSetIn, RearrangesDataset).tree.Dataset]
                ELSE [built |-> FALSE, deletes |-> 0, Dataset |-> <<>>]]
  /\ rs = NoObject
  /\ neighbors = StaleNeighbors
  /\ distances = StaleDistances
  /\ queryTreesAlive = 0
  /\ lastCall = Call("none", <<>>, "ok", <<>>)

\* The process is still running: no call has ended in a crash.
Running == lastCall.outcome # "crash"

\* RangeSearch(referenceSetIn, naive, singleMode)
ConstructFromSet(naive, singleMode) ==
  /\ Running /\ ~rs.alive
  /\ LET c == RangeSearchFromSet(referenceSetIn, naive, singleMode, RearrangesDataset)
     IN /\ rs' = c.object
        /\ trees' = [trees EXCEPT !["own"] =
                       [built |-> c.built, deletes |-> 0, Dataset |-> c.tree.Dataset]]
        /\ referenceSetIn' = c.referenceSet
  /\ lastCall' = Call("RangeSearch(referenceSet)", <<naive, singleMode>>, "ok", <<>>)
  /\ UNCHANGED <<querySetIn, range, RearrangesDataset, neighbors, distances,
                 queryTreesAlive>>

\* RangeSearch(referenceTree, singleMode) on the caller's tree
ConstructFromTree(singleMode) ==
  /\ Running /\ ~rs.alive
  /\ rs' = RangeSearchFromTree(trees["ext"], singleMode)
  /\ trees' = [trees EXCEPT !["own"] =
                 [built |-> FALSE, deletes |-> 0, Dataset |-> <<>>]]
  /\ lastCall' = Call("RangeSearch(referenceTree)", <<singleMode>>, "ok", <<>>)
  /\ UNCHANGED <<referenceSetIn, querySetIn, range, RearrangesDataset, neighbors,
                 distances, queryTreesAlive>>

\* ~RangeSearch()
Destroy ==
  /\ Running /\ rs.alive
  /\ trees' = [t \in {"ext", "own"} |->
                 IF t \in TreesDeletedByDestructor(rs)
                 THEN [trees[t] EXCEPT !.deletes = @ + 1]
                 ELSE trees[t]]
  /\ rs' = NoObject
  /\ lastCall' = Call("~RangeSearch", <<>>, "ok",
                      [k \in 1..Cardinality(TreesDeletedByDestructor(rs)) |->
                         <<"delete", "referenceTree">>])
  /\ UNCHANGED <<referenceSetIn, querySetIn, range, RearrangesDataset, neighbors,
                 distances, queryTreesAlive>>

\* How a call that went through its deletes can end.  Deleting a temporary
\* it allocated is sound.  Deleting a vector of the caller's is undefined:
\* the process may stop there, or go on with the vector as the call left
\* it, or with the vector destroyed.
Endings(c) ==
  IF c.deleted \subseteq Temporaries
  THEN {[outcome |-> "ok", neighbors |-> c.heap["neighbors"],
         distances |-> c.heap["distances"]]}
  ELSE {[outcome |-> x, neighbors |-> n, distances |-> d] :
          x \in {"ok", "crash"},
          n \in IF "neighbors" \in c.deleted
                THEN {c.heap["neighbors"], <<>>} ELSE {c.heap["neighbors"]},
          d \in IF "distances" \in c.deleted
                THEN {c.heap["distances"], <<>>} ELSE {c.heap["distances"]}}

\* What a call's events leave of the query trees it built.
QueryTreesLeft(events) ==
  Count(events, <<"build", "queryTree">>) - Count(events, <<"delete", "queryTree">>)

\* Search(querySet, range, neighbors, distances)
SearchQuerySet ==
  /\ Running /\ rs.alive
  /\ LET c == SearchQuerySetCall(rs, RearrangesDataset, querySetIn, range,
                                 neighbors, distances)
     IN /\ \E e \in Endings(c) :
             /\ neighbors' = e.neighbors
             /\ distances' = e.distances
             /\ lastCall' = Call("Search(querySet)", <<>>, e.outcome, c.events)
        /\ querySetIn' = c.querySet
        /\ rs' = c.object
        /\ queryTreesAlive' = queryTreesAlive + QueryTreesLeft(c.events)
  /\ UNCHANGED <<referenceSetIn, range, RearrangesDataset, trees>>

\* Search(queryTree, range, neighbors, distances) with the caller's tree
\* over its query matrix
SearchQueryTree ==
  /\ Running /\ rs.alive
  /\ IF UsageError(rs)
     THEN /\ lastCall' = Call("Search(queryTree)", <<>>, "invalid_argument",
                              RefusedEvents)
          /\ UNCHANGED <<neighbors, distances, queryTreesAlive>>
     ELSE LET c == SearchQueryTreeCall(rs, RearrangesDataset,
                     CallerTree(querySetIn, RearrangesDataset).tree, range,
                     neighbors, distances)
          IN /\ \E e \in Endings(c) :
                  /\ neighbors' = e.neighbors
                  /\ distances' = e.distances
                  /\ lastCall' = Call("Search(queryTree)", <<>>, e.outcome, c.events)
             /\ queryTreesAlive' = queryTreesAlive + QueryTreesLeft(c.events)
  /\ UNCHANGED <<referenceSetIn, querySetIn, range, RearrangesDataset, trees, rs>>

\* Search(range, neighbors, distances)
SearchSelf ==
  /\ Running /\ rs.alive
  /\ LET c == SearchSelfCall(rs, RearrangesDataset, range, neighbors, distances)
     IN /\ \E e \in Endings(c) :
             /\ neighbors' = e.neighbors
             /\ distances' = e.distances
             /\ lastCall' = Call("Search(range)", <<>>, e.outcome, c.events)
        /\ queryTreesAlive' = queryTreesAlive + QueryTreesLeft(c.events)
  /\ UNCHANGED <<referenceSetIn, querySetIn, range, RearrangesDataset, trees, rs>>

Next ==
  \/ \E naive \in BOOLEAN, singleMode \in BOOLEAN : ConstructFromSet(naive, singleMode)
  \/ \E singleMode \in BOOLEAN : ConstructFromTree(singleMode)
  \/ SearchQuerySet
  \/ SearchQueryTree
  \/ SearchSelf
  \/ Destroy

Spec == Init /\ [][Next]_vars

----------------------------------------------------------------------------
(* What the claims speak of *)

\* The last call was `op` and it returned normally.
Returned(op) == lastCall.op = op /\ lastCall.outcome = "ok"

\* The object was constructed from the caller's raw reference matrix.
FromRawSet == rs.alive /\ (rs.naive \/ rs.treeOwner)

\* Two buffers are parallel: as many entries, each pair as long.
Parallel(nb, ds) ==
  /\ Len(nb) = Len(ds)
  /\ \A q \in 1..Len(nb) : Len(nb[q]) = Len(ds[q])

\* Per query position, the set of (reference index, distance) pairs two
\* parallel buffers hold.
ResultSets(nb, ds) ==
  [q \in 1..Len(nb) |-> {<<nb[q][k], ds[q][k]>> : k \in 1..Len(nb[q])}]

\* What Search(querySet, range) returns on an object constructed from the
\* caller's reference matrix with the given flags and tree trait.
SetSearchOutput(naive, singleMode, rearranges) ==
  LET o == RangeSearchFromSet(referenceSetIn, naive, singleMode, rearranges).object
      c == SearchQuerySetCall(o, rearranges, querySetIn, range,
                              StaleNeighbors, StaleDistances)
  IN [neighbors |-> c.heap["neighbors"], distances |-> c.heap["distances"]]

\* What Search(range) returns on such an object.
SelfSearchOutput(naive, singleMode, rearranges) ==
  LET o == RangeSearchFromSet(referenceSetIn, naive, singleMode, rearranges).object
      c == SearchSelfCall(o, rearranges, range, StaleNeighbors, StaleDistances)
  IN [neighbors |-> c.heap["neighbors"], distances |-> c.heap["distances"]]

\* What the same two calls return on an object constructed from the
\* caller's tree over the reference matrix, of the given tree trait.
SetSearchOutputOnTree(singleMode, rearranges) ==
  LET o == RangeSearchFromTree(CallerTree(referenceSetIn, rearranges).tree, singleMode)
      c == SearchQuerySetCall(o, rearranges, querySetIn, range,
                              StaleNeighbors, StaleDistances)
  IN [neighbors |-> c.heap["neighbors"], distances |-> c.heap["distances"]]

SelfSearchOutputOnTree(singleMode, rearranges) ==
  LET o == RangeSearchFromTree(CallerTree(referenceSetIn, rearranges).tree, singleMode)
      c == SearchSelfCall(o, rearranges, range, StaleNeighbors, StaleDistances)
  IN [neighbors |-> c.heap["neighbors"], distances |-> c.heap["distances"]]

\* The reference points as the caller of this object names them: by the
\* columns of its matrix, or by the columns of the tree it supplied.
VisibleReferences == IF rs.referenceTree = "ext" THEN rs.referenceSet ELSE referenceSetIn

\* The query points of the last Search call as its caller names them.
VisibleQueries ==
  CASE lastCall.op = "Search(querySet)"  -> querySetIn
    [] lastCall.op = "Search(queryTree)" ->
         CallerTree(querySetIn, RearrangesDataset).tree.Dataset
    [] OTHER -> VisibleReferences

SearchOps == {"Search(querySet)", "Search(queryTree)", "Search(range)"}

\* The place of the first occurrence of event e in a call's events (0: none).
Position(events, e) ==
  IF \E k \in 1..Len(events) : events[k] = e
  THEN CHOOSE k \in 1..Len(events) :
         events[k] = e /\ \A m \in 1..(k - 1) : events[m] # e
  ELSE 0

----------------------------------------------------------------------------
(* The claims *)

\* C1: on an object constructed from the raw reference set, Search(querySet,
\* range) returns per query position the same set of (reference index,
\* distance) pairs as objects constructed from the same set in naive, in
\* single-tree and in dual-tree mode.
C1_StrategiesAgree ==
  (Returned("Search(querySet)") /\ FromRawSet) =>
    /\ Parallel(neighbors, distances)
    /\ \A naive \in BOOLEAN, singleMode \in BOOLEAN :
         LET other == SetSearchOutput(naive, singleMode, RearrangesDataset)
         IN /\ Parallel(other.neighbors, other.distances)
            /\ ResultSets(neighbors, distances)
                 = ResultSets(other.neighbors, other.distances)

\* C1's case: a tree traversal that pruned nothing away wrongly, with a
\* reordered reference set, some pairs in range and some not.
C1_Witness ==
  /\ Returned("Search(querySet)") /\ FromRawSet /\ ~rs.naive /\ RearrangesDataset
  /\ rs.oldFromNewReferences = <<2, 1>>
  /\ \E q \in 1..Len(neighbors) : Len(neighbors[q]) = 1

\* C2: after Search(querySet, [lo, hi]) on an object constructed from the raw
\* reference set, every query point's result holds exactly one entry
\* (r, d) for each reference point r with d = metric(q, r) in [lo, hi], and
\* nothing else.
C2_ExactlyInRange ==
  (Returned("Search(querySet)") /\ FromRawSet) =>
    /\ Parallel(neighbors, distances)
    /\ Len(neighbors) = Len(querySetIn)
    /\ \A q \in 1..Len(querySetIn) :
         /\ \A r \in 1..Len(referenceSetIn) :
              Cardinality({k \in 1..Len(neighbors[q]) : neighbors[q][k] = r})
                = IF Contains(range, Evaluate(querySetIn[q], referenceSetIn[r]))
                  THEN 1 ELSE 0
         /\ \A k \in 1..Len(neighbors[q]) :
              /\ neighbors[q][k] \in 1..Len(referenceSetIn)
              /\ distances[q][k]
                   = Evaluate(querySetIn[q], referenceSetIn[neighbors[q][k]])

\* C2's case: both ends of the range are met (a pair at distance lo = 0 and
\* a pair at distance hi = 1 are reported), in naive mode.
C2_Witness ==
  /\ Returned("Search(querySet)") /\ rs.naive
  /\ range = [lo |-> 0, hi |-> 1]
  /\ \E q \in 1..Len(distances) : distances[q] = <<0, 1>>

\* C3: after every Search call that returns normally, of any overload and in
\* any configuration, neighbors and distances are parallel, and each
\* distance is that of the reference point named beside it.
C3_BuffersParallel ==
  (lastCall.op \in SearchOps /\ lastCall.outcome = "ok") =>
    /\ Parallel(neighbors, distances)
    /\ Len(neighbors) = Len(VisibleQueries)
    /\ \A q \in 1..Len(neighbors) : \A k \in 1..Len(neighbors[q]) :
         /\ neighbors[q][k] \in 1..Len(VisibleReferences)
         /\ distances[q][k]
              = Evaluate(VisibleQueries[q], VisibleReferences[neighbors[q][k]])

\* The one configuration in which Search(querySet) hands a vector of the
\* caller's to delete (see C3): dual-tree mode on the caller's tree, with a
\* tree type that reorders.
DeletesCallerVector ==
  /\ lastCall.op = "Search(querySet)" /\ RearrangesDataset
  /\ rs.referenceTree = "ext" /\ ~rs.singleMode

\* C4 as stated: for any tree-using object, Search(querySet) and self-search
\* with a tree type that reorders points return the same per-query sets as
\* with a tree type that does not.  (The configuration of C3's defect is
\* left out, so that what refutes this is not that defect.)
C4_TransparentForAnyObject ==
  (lastCall.op \in {"Search(querySet)", "Search(range)"} /\ lastCall.outcome = "ok"
     /\ ~rs.naive /\ RearrangesDataset /\ ~DeletesCallerVector) =>
    LET twin == CASE lastCall.op = "Search(querySet)" /\ rs.treeOwner ->
                       SetSearchOutput(FALSE, rs.singleMode, FALSE)
                  [] lastCall.op = "Search(querySet)" ->
                       SetSearchOutputOnTree(rs.singleMode, FALSE)
                  [] lastCall.op = "Search(range)" /\ rs.treeOwner ->
                       SelfSearchOutput(FALSE, rs.singleMode, FALSE)
                  [] OTHER ->
                       SelfSearchOutputOnTree(rs.singleMode, FALSE)
    IN /\ Len(neighbors) = Len(twin.neighbors)
       /\ ResultSets(neighbors, distances)
            = ResultSets(twin.neighbors, twin.distances)

\* C4, amended: on an object that built its reference tree from the raw
\* reference set, Search(querySet) and self-search with a tree type that
\* reorders points return the same per-query sets of (reference index,
\* distance), by the caller's positions, as with a tree type that does not.
C4_TransparentForOwnTree ==
  (lastCall.op \in {"Search(querySet)", "Search(range)"} /\ lastCall.outcome = "ok"
     /\ rs.treeOwner /\ RearrangesDataset) =>
    LET twin == IF lastCall.op = "Search(querySet)"
                THEN SetSearchOutput(FALSE, rs.singleMode, FALSE)
                ELSE SelfSearchOutput(FALSE, rs.singleMode, FALSE)
    IN /\ Parallel(neighbors, distances)
       /\ Parallel(twin.neighbors, twin.distances)
       /\ ResultSets(neighbors, distances)
            = ResultSets(twin.neighbors, twin.distances)

\* C4's case: a dual-tree Search(querySet) in which both trees reordered
\* their points, and the two query points have different results.
C4_Witness ==
  /\ Returned("Search(querySet)") /\ rs.treeOwner /\ ~rs.singleMode
  /\ RearrangesDataset
  /\ rs.oldFromNewReferences = <<2, 1>>
  /\ querySetIn = <<1, 0>>
  /\ ResultSets(neighbors, distances)[1] # ResultSets(neighbors, distances)[2]

\* C5: after a self-search, in any mode, no point is in its own result, and
\* when distance 0 is in the range every other point at the same place is.
C5_SelfExcluded ==
  Returned("Search(range)") =>
    /\ Len(neighbors) = Len(VisibleReferences)
    /\ \A q \in 1..Len(neighbors) :
         /\ \A k \in 1..Len(neighbors[q]) : neighbors[q][k] # q
         /\ Contains(range, 0) =>
              \A r \in 1..Len(VisibleReferences) :
                (r # q /\ VisibleReferences[r] = VisibleReferences[q]) =>
                  \E k \in 1..Len(neighbors[q]) : neighbors[q][k] = r

\* C5's case: lo = 0, two points at the same place, each reported for the
\* other after the indices were mapped back.
C5_Witness ==
  /\ Returned("Search(range)") /\ rs.treeOwner /\ RearrangesDataset
  /\ range.lo = 0
  /\ referenceSetIn = <<1, 1>>
  /\ neighbors = << <<2>>, <<1>> >>

\* C6: Search(queryTree) on an object in naive or single-tree mode ends in
\* invalid_argument before any traversal and leaves neighbors and distances
\* as they were; on an object in dual-tree mode it raises no error.
C6_UsageError ==
  [][lastCall'.op = "Search(queryTree)" =>
       IF rs.naive \/ rs.singleMode
       THEN /\ lastCall'.outcome = "invalid_argument"
            /\ \A k \in 1..Len(lastCall'.events) : lastCall'.events[k][1] # "traverse"
            /\ neighbors' = neighbors
            /\ distances' = distances
       ELSE lastCall'.outcome = "ok"]_vars

\* C6's case: the call was refused after an earlier Search had filled the
\* buffers, which still hold that result.
C6_Witness ==
  /\ lastCall.op = "Search(queryTree)" /\ lastCall.outcome = "invalid_argument"
  /\ rs.singleMode
  /\ neighbors # StaleNeighbors
  /\ \E q \in 1..Len(neighbors) : neighbors[q] # <<>>

C8_TreeOwnership ==
  /\ trees["ext"].deletes = 0
  /\ trees["own"].deletes <= 1
  /\ (rs.alive /\ rs.treeOwner) =>
       (rs.referenceTree = "own" /\ trees["own"].built /\ trees["own"].deletes = 0)
  /\ (rs.alive /\ ~rs.treeOwner) => ~trees["own"].built
  /\ (~rs.alive /\ trees["own"].built) => trees["own"].deletes = 1

\* C8's case: an object that built its tree was torn down, after a Search
\* had run; its tree is deleted once and the caller's tree not at all.
C8_Witness ==
  /\ lastCall.op = "~RangeSearch"
  /\ trees["own"].built /\ trees["own"].deletes = 1
  /\ trees["ext"].deletes = 0
  /\ neighbors # StaleNeighbors

\* C9: Search(querySet) builds a query tree only in dual-tree mode, uses it
\* for one dual-tree traversal and deletes it before it returns; no other
\* call builds one, and none is alive between calls.
C9_QueryTreeLocal ==
  LET ev     == lastCall.events
      built  == Count(ev, <<"build", "queryTree">>)
      freed  == Count(ev, <<"delete", "queryTree">>)
      isDual == lastCall.op = "Search(querySet)" /\ Mode(rs) = "dual"
  IN /\ queryTreesAlive = 0
     /\ built = (IF isDual THEN 1 ELSE 0)
     /\ freed = built
     /\ isDual =>
          /\ Count(ev, <<"traverse", "dual">>) = 1
          /\ Position(ev, <<"build", "queryTree">>) < Position(ev, <<"traverse", "dual">>)
          /\ Position(ev, <<"traverse", "dual">>) < Position(ev, <<"delete", "queryTree">>)

\* C9's case: a dual-tree Search(querySet) has returned.
C9_Witness ==
  /\ Returned("Search(querySet)") /\ Mode(rs) = "dual"
  /\ Count(lastCall.events, <<"delete", "queryTree">>) = 1

\* C10: the flags of a constructed object are consistent: never naive and
\* singleMode together; naive means no tree, no ownership and the caller's
\* reference set as it is; the raw-set constructor owns its tree unless
\* naive; the tree constructor sets naive and treeOwner false and keeps
\* singleMode.
C10_FlagsConsistent ==
  /\ rs.alive =>
       /\ ~(rs.naive /\ rs.singleMode)
       /\ rs.naive => /\ rs.referenceTree = "NULL"
                      /\ ~rs.treeOwner
                      /\ ~trees["own"].built
                      /\ rs.referenceSet = referenceSetIn
       /\ rs.treeOwner <=> rs.referenceTree = "own"
       /\ (~rs.naive /\ ~rs.treeOwner) <=> rs.referenceTree = "ext"
  /\ lastCall.op = "RangeSearch(referenceSet)" =>
       /\ rs.naive = lastCall.args[1]
       /\ rs.singleMode = (~lastCall.args[1] /\ lastCall.args[2])
       /\ rs.treeOwner = ~lastCall.args[1]
  /\ lastCall.op = "RangeSearch(referenceTree)" =>
       /\ ~rs.naive
       /\ ~rs.treeOwner
       /\ rs.singleMode = lastCall.args[1]

\* C10's case: constructed with naive and singleMode both true.
C10_Witness ==
  /\ lastCall.op = "RangeSearch(referenceSet)"
  /\ lastCall.args = <<TRUE, TRUE>>
  /\ rs.naive /\ ~rs.singleMode


\* C11: after any Search call that is not refused as a usage error, made
\* with a range whose lower end exceeds its upper end, the call has returned
\* normally, both buffers have one entry per query point and every entry of
\* both is empty.
C11_EmptyRange ==
  (lastCall.op \in SearchOps /\ lastCall.outcome # "invalid_argument"
     /\ range.lo > range.hi) =>
    /\ lastCall.outcome = "ok"
    /\ Len(neighbors) = Len(VisibleQueries)
    /\ Len(distances) = Len(VisibleQueries)
    /\ \A q \in 1..Len(neighbors) : neighbors[q] = <<>>
    /\ \A q \in 1..Len(distances) : distances[q] = <<>>

\* The last Search call, made again on the object as it is now, with the
\* caller's buffers holding nb and ds beforehand.
LastSearchCall(nb, ds) ==
  CASE lastCall.op = "Search(querySet)" ->
         SearchQuerySetCall(rs, RearrangesDataset, querySetIn, range, nb, ds)
    [] lastCall.op = "Search(queryTree)" ->
         SearchQueryTreeCall(rs, RearrangesDataset,
                             CallerTree(querySetIn, RearrangesDataset).tree,
                             range, nb, ds)
    [] OTHER -> SearchSelfCall(rs, RearrangesDataset, range, nb, ds)

\* Contents the caller's buffers may hold before a call: nothing, leftovers
\* of unequal sizes, more entries than there are query points.
PriorNeighbors == {<<>>, StaleNeighbors, << <<2>>, <<1>>, <<1, 2>> >>}
PriorDistances == {<<>>, StaleDistances, << <<1>>, <<0>>, <<0, 1>> >>}

\* C12: after every Search call that returned normally, both buffers have
\* one entry per query point, and they hold what the same call yields
\* whatever the buffers held beforehand; in particular the same call made
\* again, on the buffers as they are now, yields them again.
C12_BuffersReinitialised ==
  (lastCall.op \in SearchOps /\ lastCall.outcome = "ok") =>
    /\ Len(neighbors) = Len(VisibleQueries)
    /\ Len(distances) = Len(VisibleQueries)
    /\ \A nb \in PriorNeighbors \cup {neighbors},
          ds \in PriorDistances \cup {distances} :
          /\ LastSearchCall(nb, ds).heap["neighbors"] = neighbors
          /\ LastSearchCall(nb, ds).heap["distances"] = distances

\* What the dual-tree traversal of the object's reference tree and a query
\* tree over queryDataset writes, position by position of the two trees.
RawDual(queryDataset) ==
  Traverse("dual", RuleType(rs.referenceSet, queryDataset, range, FALSE),
           [n |-> Resized(Len(queryDataset)), d |-> Resized(Len(queryDataset))])

\* C13, first part: Search(querySet) in dual-tree mode on the caller's
\* reference tree, of a rearranging tree type, maps the query side only:
\* the entry of query oldFromNewQueries[i] is the raw list of position i.
C13_QuerySideOnly ==
  (Returned("Search(querySet)") /\ rs.referenceTree = "ext" /\ ~rs.singleMode
     /\ RearrangesDataset) =>
    LET qt  == BuildTree(querySetIn, TRUE)
        raw == RawDual(qt.tree.Dataset)
    IN /\ Len(neighbors) = Len(querySetIn)
       /\ Len(distances) = Len(querySetIn)
       /\ \A i \in 1..Len(querySetIn) :
            /\ neighbors[qt.oldFromNew[i]] = raw.n[i]
            /\ distances[qt.oldFromNew[i]] = raw.d[i]

\* C13, second part: Search(queryTree) leaves the rows in the query tree's
\* order and maps the reference indices exactly when the object built its
\* reference tree (with a tree type that rearranges).
C13_ReferenceSideOnly ==
  Returned("Search(queryTree)") =>
    LET raw == RawDual(CallerTree(querySetIn, RearrangesDataset).tree.Dataset)
    IN /\ distances = raw.d
       /\ Len(neighbors) = Len(raw.n)
       /\ \A i \in 1..Len(neighbors) :
            neighbors[i] = IF rs.treeOwner /\ RearrangesDataset
                           THEN MapReference(rs.oldFromNewReferences, raw.n[i])
                           ELSE raw.n[i]

\* C13: the two remappings are independent: each side is mapped exactly
\* when its tree was built by the code and rearranges, whatever the other
\* side does.
C13_RemappingIndependent == C13_QuerySideOnly /\ C13_ReferenceSideOnly

\* C14: no Search call, whether it returns or is refused, changes the
\* object (its flags, its permutation record, which tree it holds, its view
\* of the reference points) or any reference tree (its points and their
\* order, whether it is alive).
C14_SearchKeepsObject ==
  [][lastCall'.op \in SearchOps => (rs' = rs /\ trees' = trees)]_vars

\* C14's case: a dual-tree Search(querySet) returned on an object that
\* built its reference tree, where the query tree's permutation record is
\* not the reference tree's.
C14_Witness ==
  /\ Returned("Search(querySet)")
  /\ rs.treeOwner /\ ~rs.singleMode /\ RearrangesDataset
  /\ rs.oldFromNewReferences = <<2, 1>>
  /\ BuildTree(querySetIn, TRUE).oldFromNew = <<1, 2>>
  /\ trees["own"].Dataset = <<0, 1>>

\* In a call's events, vector b is cleared after the traversal wrote the
\* raw results and read after that.
ClearedBeforeRead(events, b) ==
  \E t, k, m \in 1..Len(events) :
    /\ t < k /\ k < m
    /\ events[t][1] = "traverse"
    /\ events[k] = <<"clear", b>>
    /\ events[m] = <<"read", b>>

\* C15: in every Search call, a vector is handed to delete exactly when the
\* call allocated it (once each), so never a vector of the caller's and
\* never a temporary left behind; and no vector is cleared between the
\* traversal that filled it and the loop that reads it.
C15_TemporariesSound ==
  lastCall.op \in SearchOps =>
    \A b \in Buffers :
      /\ Count(lastCall.events, <<"delete", b>>) = Count(lastCall.events, <<"new", b>>)
      /\ Count(lastCall.events, <<"new", b>>) <= 1
      /\ b \notin Temporaries => Count(lastCall.events, <<"delete", b>>) = 0
      /\ ~ClearedBeforeRead(lastCall.events, b)

\* The strategies of the traversals among a call's events.
Traversals(events) ==
  {events[k][2] : k \in {m \in 1..Len(events) : events[m][1] = "traverse"}}

\* C16: an object in naive mode holds no reference tree (and built none);
\* whatever is called on it leaves every tree as it is; Search(querySet)
\* and Search(range) run the all-pairs loops and nothing else, build no tree
\* and yield what the loops over the stored reference set yield;
\* Search(queryTree) ends in the usage error without a traversal; teardown
\* deletes nothing.
C16_NaiveHasNoTree ==
  [][(rs.alive /\ rs.naive) =>
       /\ rs.referenceTree = "NULL"
       /\ ~trees["own"].built
       /\ trees' = trees
       /\ lastCall'.op \in {"Search(querySet)", "Search(range)"} =>
            /\ lastCall'.outcome = "ok"
            /\ Traversals(lastCall'.events) = {"naive"}
            /\ Count(lastCall'.events, <<"build", "queryTree">>) = 0
            /\ LET rules == RuleType(rs.referenceSet,
                                     IF lastCall'.op = "Search(range)"
                                     THEN rs.referenceSet ELSE querySetIn,
                                     range, lastCall'.op = "Search(range)")
                    n     == Len(rules.querySet)
                    res   == NaiveQueries(rules, [n |-> Resized(n), d |-> Resized(n)], 1)
                IN neighbors' = res.n /\ distances' = res.d
       /\ lastCall'.op = "Search(queryTree)" =>
            /\ lastCall'.outcome = "invalid_argument"
            /\ Traversals(lastCall'.events) = {}
       /\ lastCall'.op = "~RangeSearch" => lastCall'.events = <<>>
    ]_vars

\* C16's case: a naive object, after a Search that reported something, was
\* asked to search with a query tree.
C16_Witness ==
  /\ rs.alive /\ rs.naive
  /\ lastCall.op = "Search(queryTree)" /\ lastCall.outcome = "invalid_argument"
  /\ Parallel(neighbors, distances)
  /\ \E q \in 1..Len(neighbors) : Len(neighbors[q]) = 2

RECURSIVE TimerRun(_, _)
\* The timers through a call's events, from the set `running`: whether
\* every Timer::Start found its timer stopped (and, for tree_building,
\* computing_neighbors stopped too) and every Timer::Stop found its timer
\* running, and which timers run at the end.
TimerRun(events, running) ==
  IF events = <<>> THEN [balanced |-> TRUE, running |-> running]
  ELSE LET e == Head(events)
       IN CASE e[1] = "start" ->
                 IF \/ e[2] \in running
                    \/ e[2] = "tree_building" /\ "computing_neighbors" \in running
                 THEN [balanced |-> FALSE, running |-> running]
                 ELSE TimerRun(Tail(events), running \cup {e[2]})
            [] e[1] = "stop" ->
                 IF e[2] \notin running
                 THEN [balanced |-> FALSE, running |-> running]
                 ELSE TimerRun(Tail(events), running \ {e[2]})
            [] OTHER -> TimerRun(Tail(events), running)

\* C17: in every Search call that ended by returning or by the usage error,
\* the timer calls are balanced (a start only of a stopped timer, a stop
\* only of a running one, computing_neighbors stopped while tree_building
\* runs) and no timer is running at the end.
C17_TimersBalanced ==
  (lastCall.op \in SearchOps /\ lastCall.outcome \in {"ok", "invalid_argument"}) =>
    /\ TimerRun(lastCall.events, {}).balanced
    /\ TimerRun(lastCall.events, {}).running = {}

====
